---- MODULE Spec2Model ----
(***************************************************************************)
(* Task lifecycle engine of poiesis: the create-task handler, the Torc     *)
(* orchestrator with its retry loop, the stage processes Tif, Texam and    *)
(* Tof, the Redis pub/sub channel of the task, the Cancel controller and   *)
(* the task document in MongoDB.  One task is modelled; tasks do not       *)
(* interact.  A step of a process runs from one point where another        *)
(* process can observe or disturb it to the next: a write of the task      *)
(* state, a publish, a subscribe, the creation or deletion of a Job.       *)
(***************************************************************************)
EXTENDS Integers, Sequences, FiniteSets, TLC

\* ---------------------------------------------------------------- bounds
MaxExecutors == 2
MaxCancelRequests == 2
MaxTasks == 5
MaxPageSize == 3
MaxCalls == 3
MaxStored == 2
MaxLogged == 2
MaxBackoffLimit == 9
MaxListed == 3
MaxPathLen == 4
MaxTagParams == 2

\* ------------------------------------------------------ program constants
max_retries == 3
base_delay == 1

Users == {"alice", "bob"}
Owner == "alice"

VARIABLES
    state,        \* TaskSchema.state / data.state of the task document; "ABSENT" before insert_task
    user_id,      \* TaskSchema.user_id
    task,         \* the TesTask: [inputs, outputs : BOOLEAN (non-empty), executors : number]
    logs,         \* data.logs: sequence of TesTaskLog
    apiPc,        \* position of CreateTaskController (execute and the _create_torc_job task)
    torcPc,       \* position of Torc.execute
    torcStage,    \* the TorcExecutionTemplate instance Torc is inside of
    attempt,      \* loop variable of Torc.execute
    delays,       \* history: the delays Torc.execute has slept
    pvc,          \* the PersistentVolumeClaim pvc-<id> exists
    subscribed,   \* the current template instance listens on channel <id>
    inbox,        \* the message delivered to that subscription and not yet read
    message,      \* TorcExecutionTemplate.message of the current instance
    tif,          \* the Job tif-<id> and its process
    texam,        \* the Job texam-<id> and its process
    tof,          \* the Job tof-<id> and its process
    execJob,      \* the Jobs te-<id>-<idx>: "none", "running", "complete", "failed",
                  \* "waiting" for a Job whose pod stays Pending with a container
                  \* waiting reason such as ImagePullBackOff, or "left" for a Job
                  \* of a Texam run that has exited
    cancelPc,     \* position of the cleanup task of CancelTaskController
    cancelUser,   \* CancelTaskController.user_id of the last request
    cancelResp,   \* outcome of the last CancelTask request
    cancelCount,  \* number of CancelTask requests issued
    cleaned,      \* history: the resource classes the cleanup task has processed
    matching,     \* ListTasks: the _ids of the documents the query matches
    page_size,    \* ListTasks: page_size of the requests
    page_token,   \* ListTasks: next_page_token of the last response, 0 for None
    collected,    \* ListTasks: the tasks of the pages received, in order
    listPc,       \* ListTasks: position of the client that follows the tokens
    uri,          \* Filer: the url of the input or output being transferred
    payload,      \* Filer: "TesInput" (Tif) or "TesOutput" (Tof)
    strategy,     \* Filer: what FilerStrategyFactory.create_strategy gave for it
    stored,       \* log writers: data.logs of the document they write
    stored0,      \* log writers: data.logs before the first of them started
    op,           \* log writers: the repository operation each of them runs
    opPc,         \* log writers: "get_task", "update_one" or "done" for each
    fetched,      \* log writers: data.logs of the task each got from get_task
    document,     \* state writes: the task document, its fields state, data.state,
                  \* updated_at and (standing for all others) user_id
    clock,        \* state writes: datetime.now, counted in calls
    requested,    \* state writes: the state argument of the last call
    owner,        \* access: user_id of each stored task, "absent" without one
    answer,       \* access: the last GetTask or ListTasks request and its response
    name_arg,     \* executor log: the name update_executor_log is called with, as its parts between the dashes
    phase_arg,    \* executor log: the phase it is called with
    before,       \* executor log: data.logs of the stored task before the call
    after,        \* executor log: data.logs of the stored task after the call
    execLogPc,    \* executor log: "call" or "done"
    BACKOFF_LIMIT, \* create retry: core_constants.Texam.BACKOFF_LIMIT
    backoff_time, \* create retry: the local of create_executor_job
    create_calls,      \* create retry: the calls of create_job so far
    delete_calls,      \* create retry: the calls of delete_job so far
    slept,        \* create retry: the delays of asyncio.sleep so far
    exec_idx,          \* create retry: the index of the executor
    execLogs,     \* create retry: data.logs of the task
    createPc,     \* create retry: "loop", "returned_true", "returned_false" or "raised"
    resource,     \* cleanup loop: the resource class of the pass
    listed,       \* cleanup loop: how many resources carry the label
    try_count,    \* cleanup loop: the local of the pass
    delete_calls_made, \* cleanup loop: the calls of delete_fn in the pass
    sleeps,       \* cleanup loop: the delays of asyncio.sleep in the pass
    cleanupPc,    \* cleanup loop: "while", "done" or "except"
    out_path,     \* upload: TesOutput.path, as its characters
    path_prefix,  \* upload: TesOutput.path_prefix, <<>> for None
    out_type,     \* upload: TesOutput.type
    glob_matches, \* upload: glob(container_path) finds something
    is_file,      \* upload: a file exists at container_path
    uploaded,     \* upload: the handler upload has called, and on what
    uploadPc,     \* upload: "call" or "done"
    tag_key,      \* tag filter: the tag_key parameters of the request
    tag_value,    \* tag filter: its tag_value parameters, <<"None">> without any
    doc_tags,     \* tag filter: the tags of a stored task, "absent" for a key it lacks
    returned,     \* tag filter: the task is in the response
    tagPc,        \* tag filter: "call" or "done"
    stageFailed   \* history: the work of a stage of the current attempt has failed

vars == <<state, user_id, task, logs, apiPc, torcPc, torcStage, attempt, delays, pvc,
          subscribed, inbox, message, tif, texam, tof, execJob,
          cancelPc, cancelUser, cancelResp, cancelCount, cleaned, stageFailed,
          matching, page_size, page_token, collected, listPc, uri, payload,
          strategy, stored, stored0, op, opPc, fetched, document, clock,
          requested, owner, answer,
          name_arg, phase_arg, before, after, execLogPc,
          BACKOFF_LIMIT, backoff_time, create_calls, delete_calls, slept, exec_idx, execLogs, createPc,
          resource, listed, try_count, delete_calls_made, sleeps, cleanupPc,
          out_path, path_prefix, out_type, glob_matches, is_file, uploaded, uploadPc,
          tag_key, tag_value, doc_tags, returned, tagPc>>

docVars == <<state, user_id, task, logs>>
torcVars == <<torcPc, torcStage, attempt, delays, pvc, message>>
brokerVars == <<subscribed, inbox>>
stageVars == <<tif, texam, tof, execJob>>
cancelVars == <<cancelPc, cancelUser, cancelResp, cancelCount, cleaned>>
listVars == <<matching, page_size, page_token, collected, listPc>>
filerVars == <<uri, payload, strategy>>
taskVars == <<docVars, apiPc, torcVars, brokerVars, stageVars, cancelVars, stageFailed>>
\* What the processes of a task leave alone.
writerVars == <<stored, stored0, op, opPc, fetched>>
stateVars == <<document, clock, requested>>
accessVars == <<owner, answer>>
execLogVars == <<name_arg, phase_arg, before, after, execLogPc>>
backoffVars == <<BACKOFF_LIMIT, backoff_time, create_calls, delete_calls, slept, exec_idx, execLogs, createPc>>
cleanupVars == <<resource, listed, try_count, delete_calls_made, sleeps, cleanupPc>>
uploadVars == <<out_path, path_prefix, out_type, glob_matches, is_file, uploaded, uploadPc>>
tagVars == <<tag_key, tag_value, doc_tags, returned, tagPc>>
sideVars == <<listVars, filerVars, writerVars, stateVars, accessVars, execLogVars, backoffVars, cleanupVars, uploadVars, tagVars>>

NoMessage == [stage |-> "none", attempt |-> 0, status |-> "NONE"]
NoProc == [pc |-> "none", attempt |-> 0, idx |-> 0, failed |-> FALSE, pubs |-> <<>>]

ExecIdx == 0 .. (MaxExecutors - 1)

\* ------------------------------------------------------------ repository
\* MongoDBClient.update_task_state: writes only when the stored state differs.
update_task_state(cur, new) == IF cur # new THEN new ELSE cur

\* TesTaskLog(logs=[], outputs=[]).  attempt and writer are history fields
\* the document does not have: the Torc attempt that appended the TaskLog,
\* and the Torc attempt that last wrote its system_logs or end_time (-1: none).
NewTaskLog ==
    [end_time |-> FALSE, system_logs |-> FALSE, logs |-> <<>>,
     attempt |-> attempt, writer |-> -1]

\* The stderr text of an ExecutorLog: which of the texts of Texam it is and,
\* for "Executor {i} failed to start because executor {k} failed.", the two
\* indices it names (-1 in the texts that name none).
Stderr(kind, i, k) == [kind |-> kind, i |-> i, k |-> k]

\* TesExecutorLog(exit_code=0)
NewExecutorLog ==
    [end_time |-> FALSE, exit_code |-> 0, stderr |-> Stderr("unset", -1, -1)]

\* A TesTaskLog of an earlier attempt.  Every repository operation indexes
\* data.logs[-1], so the entries before the last are neither read nor
\* written and only their number is kept.
Archived ==
    [end_time |-> FALSE, system_logs |-> FALSE, logs |-> <<>>,
     attempt |-> -1, writer |-> -1]

\* MongoDBClient.add_task_log
add_task_log(ls) == Append([i \in 1 .. Len(ls) |-> Archived], NewTaskLog)

\* data.logs[-1] exists
HasTaskLog(ls) == Len(ls) > 0

\* MongoDBClient.add_tes_task_log_end_time on a document with a TaskLog
add_tes_task_log_end_time(ls) ==
    [ls EXCEPT ![Len(ls)].end_time = TRUE, ![Len(ls)].writer = attempt]

\* MongoDBClient.add_tes_task_system_logs on a document with a TaskLog
add_tes_task_system_logs(ls) ==
    [ls EXCEPT ![Len(ls)].system_logs = TRUE, ![Len(ls)].writer = attempt]

\* MongoDBClient.add_task_executor_log on a document with a TaskLog
add_task_executor_log(ls) ==
    [ls EXCEPT ![Len(ls)].logs = Append(@, NewExecutorLog)]

\* An update_executor_log that stores exit_code 0 whatever the pod phase.
update_executor_log_exit_zero(ls, idx, pod_phase, stderr) ==
    IF HasTaskLog(ls) /\ idx + 1 <= Len(ls[Len(ls)].logs)
    THEN [ls EXCEPT ![Len(ls)].logs[idx + 1] =
            [end_time |-> TRUE, exit_code |-> 0, stderr |-> stderr]]
    ELSE ls

\* MongoDBClient.update_executor_log: idx is parsed from the executor name;
\* every exception (no TaskLog, no ExecutorLog at idx) is swallowed.
update_executor_log(ls, idx, pod_phase, stderr) ==
    IF HasTaskLog(ls) /\ idx + 1 <= Len(ls[Len(ls)].logs)
    THEN [ls EXCEPT ![Len(ls)].logs[idx + 1] =
            [end_time |-> TRUE,
             exit_code |-> IF pod_phase = "Succeeded" THEN 0 ELSE 1,
             stderr |-> stderr]]
    ELSE ls

\* ---------------------------------------------------------------- broker
\* RedisMessageBroker.publish: Redis pub/sub delivers to the subscriptions
\* that exist when the message is published and to nobody else.  The
\* subscriber reads one message and drops the subscription, so a message
\* that arrives behind an unread one is never read and is not kept.
publish(box, isSubscribed, msg) ==
    IF isSubscribed /\ box = <<>> THEN <<msg>> ELSE box

\* A Message on the channel of the task: the publishing stage, the Torc
\* attempt that started the publisher, and Message.status.
Msg(stage, att, status) ==
    [stage |-> stage, attempt |-> att, status |-> status]

\* ------------------------------------------------------------------ Init
\* No task has been created.
InitTask ==
    /\ delays = <<>>
    /\ state = "ABSENT"
    /\ user_id = "nobody"
    /\ task = [inputs |-> FALSE, outputs |-> FALSE, executors |-> 1]
    /\ logs = <<>>
    /\ apiPc = "idle"
    /\ torcPc = "none"
    /\ torcStage = "none"
    /\ attempt = 0
    /\ pvc = FALSE
    /\ subscribed = FALSE
    /\ inbox = <<>>
    /\ message = NoMessage
    /\ tif = NoProc
    /\ texam = NoProc
    /\ tof = NoProc
    /\ execJob = [i \in ExecIdx |-> "none"]
    /\ cancelPc = "idle"
    /\ cancelUser = "nobody"
    /\ cancelResp = "none"
    /\ cancelCount = 0
    /\ cleaned = <<>>
    /\ stageFailed = FALSE

\* No list request is made.
ListOff ==
    /\ matching = {}
    /\ page_size = 1
    /\ page_token = 0
    /\ collected = <<>>
    /\ listPc = "off"

\* No strategy is asked for.
FilerOff ==
    /\ uri = <<>>
    /\ payload = "TesInput"
    /\ strategy = "off"

\* The log operations are not looked at one read and one write at a time.
WritersOff ==
    /\ stored = <<>>
    /\ stored0 = <<>>
    /\ op = <<>>
    /\ opPc = <<>>
    /\ fetched = <<>>

\* No document: the fields state, data.state, updated_at, user_id and, for
\* data.logs, the number of times it has been written.
NoDocument ==
    [state |-> "ABSENT", data_state |-> "ABSENT", updated_at |-> 0,
     user_id |-> "nobody", data_logs |-> 0]

\* The state writes are not looked at field by field.
StatesOff ==
    /\ document = NoDocument
    /\ clock = 0
    /\ requested = "none"

\* No request of the read endpoints is followed.
NoAnswer == [op |-> "none", id |-> 0, caller |-> "None", kind |-> "none", tasks |-> {}]

AccessOff ==
    /\ owner = <<>>
    /\ answer = NoAnswer

\* No call of update_executor_log is looked at by its name.
ExecLogOff ==
    /\ name_arg = <<>>
    /\ phase_arg = "none"
    /\ before = <<>>
    /\ after = <<>>
    /\ execLogPc = "off"

\* No create_executor_job is followed through its loop.
BackoffOff ==
    /\ BACKOFF_LIMIT = 0
    /\ backoff_time = 0
    /\ create_calls = 0
    /\ delete_calls = 0
    /\ slept = <<>>
    /\ exec_idx = 0
    /\ execLogs = <<>>
    /\ createPc = "off"

\* No pass of the cleanup is followed through its loop.
CleanupOff ==
    /\ resource = "none"
    /\ listed = 0
    /\ try_count = 0
    /\ delete_calls_made = 0
    /\ sleeps = <<>>
    /\ cleanupPc = "off"

\* No upload of an output is followed.
UploadOff ==
    /\ out_path = <<>>
    /\ path_prefix = <<>>
    /\ out_type = "none"
    /\ glob_matches = FALSE
    /\ is_file = FALSE
    /\ uploaded = [handler |-> "none", on |-> <<>>]
    /\ uploadPc = "off"

\* No ListTasks request with tag filters is followed.
TagsOff ==
    /\ tag_key = <<>>
    /\ tag_value = <<>>
    /\ doc_tags = <<>>
    /\ returned = FALSE
    /\ tagPc = "off"

Init == InitTask /\ ListOff /\ FilerOff /\ WritersOff /\ StatesOff /\ AccessOff /\ ExecLogOff /\ BackoffOff /\ CleanupOff /\ UploadOff /\ TagsOff

\* ------------------------------------------------- CreateTaskController
\* execute: insert the document in state INITIALIZING, schedule _create_torc_job.
CreateTask ==
    /\ apiPc = "idle"
    /\ user_id' = Owner
    /\ \E i \in BOOLEAN, o \in BOOLEAN, n \in 1 .. MaxExecutors :
        task' = [inputs |-> i, outputs |-> o, executors |-> n]
    /\ state' = "INITIALIZING"
    /\ apiPc' = "scheduled"
    /\ UNCHANGED <<logs, torcVars, brokerVars, stageVars, cancelVars, stageFailed>>
    /\ UNCHANGED sideVars

\* _create_torc_job.  _create_tes_task_config_map is called outside the try
\* block: when it raises, the background task ends and nothing is written.
\* When create_job raises, the handler writes SYSTEM_ERROR.  When
\* patch_config_map (the owner reference) raises, the handler writes
\* SYSTEM_ERROR although the Torc Job has been created.
create_torc_job ==
    /\ apiPc = "scheduled"
    /\ \E raises \in {"nothing", "_create_tes_task_config_map", "create_job",
                      "patch_config_map"} :
        /\ apiPc' = IF raises = "_create_tes_task_config_map" THEN "crashed" ELSE "done"
        /\ torcPc' = IF raises \in {"nothing", "patch_config_map"} THEN "try" ELSE torcPc
        /\ state' = IF raises \in {"create_job", "patch_config_map"}
                    THEN update_task_state(state, "SYSTEM_ERROR")
                    ELSE state
    /\ UNCHANGED <<user_id, task, logs, torcStage, attempt, delays, pvc, message,
                   brokerVars, stageVars, cancelVars, stageFailed>>
    /\ UNCHANGED sideVars

\* ------------------------------------------------------------------ Torc
\* A Torc that sleeps base_delay after every failed attempt.
backoff_delay_fixed(a) == base_delay

\* delay = base_delay * (2**attempt)
backoff_delay(a) == base_delay * (2 ^ a)

StageProc(s) == IF s = "tif" THEN tif ELSE IF s = "texam" THEN texam ELSE tof

\* A Torc that goes from Tif straight to Tof.
AfterStage_unordered(s) ==
    IF s = "tif" THEN [pc |-> "stage", stage |-> "tof"]
    ELSE [pc |-> "finish", stage |-> "none"]

\* The statement of Torc.execute that follows stage s.
AfterStage(s) ==
    IF s = "tif" THEN [pc |-> "stage", stage |-> "texam"]
    ELSE IF s = "texam" THEN [pc |-> "stage", stage |-> "tof"]
    ELSE [pc |-> "finish", stage |-> "none"]

\* A Torc that runs every stage whatever the task holds.
StageSkipped_never(s) == FALSE

\* Torc.tif_execution and Torc.tof_execution return at once without inputs
\* or outputs; Torc.texam_execution always runs.
StageSkipped(s) ==
    \/ s = "tif" /\ ~task.inputs
    \/ s = "tof" /\ ~task.outputs

\* Torc.execute, the try block up to the stages: create_pvc (which writes
\* SYSTEM_ERROR itself before it re-raises), update_task_state(RUNNING),
\* add_task_log.  torcStage keeps "create_pvc" when that call has raised.
Torc_execute_try ==
    /\ torcPc = "try"
    /\ \E raises \in {"nothing", "create_pvc", "update_task_state", "add_task_log"} :
        LET pvcFails == raises = "create_pvc" \/ pvc
        IN /\ pvc' = IF pvcFails THEN pvc ELSE TRUE
           /\ state' = CASE pvcFails -> update_task_state(state, "SYSTEM_ERROR")
                         [] ~pvcFails /\ raises = "update_task_state" -> state
                         [] OTHER -> update_task_state(state, "RUNNING")
           /\ logs' = IF ~pvcFails /\ raises = "nothing" THEN add_task_log(logs) ELSE logs
           /\ torcPc' = IF ~pvcFails /\ raises = "nothing" THEN "stage" ELSE "except"
           /\ torcStage' = CASE pvcFails -> "create_pvc"
                             [] ~pvcFails /\ raises = "nothing" -> "tif"
                             [] OTHER -> torcStage
    /\ UNCHANGED <<user_id, task, apiPc, attempt, delays, message, brokerVars, stageVars,
                   cancelVars, stageFailed>>
    /\ UNCHANGED sideVars

\* tif_execution / tof_execution without inputs / outputs: return.
Torc_skip_stage ==
    /\ torcPc = "stage"
    /\ StageSkipped(torcStage)
    /\ torcPc' = AfterStage(torcStage).pc
    /\ torcStage' = AfterStage(torcStage).stage
    /\ UNCHANGED <<docVars, apiPc, attempt, delays, pvc, message, brokerVars, stageVars,
                   cancelVars, stageFailed>>
    /\ UNCHANGED sideVars

\* The name of the stage Job is free: there never was such a Job, or it is
\* the Texam Job, it has finished and ttl_seconds_after_finished
\* (POIESIS_JOB_TTL) has removed it.  The Tif and Tof Jobs are built without
\* a TTL and nothing deletes them.
NameFree(s, ttl_elapsed) ==
    \/ StageProc(s).pc = "none"
    \/ s = "texam" /\ StageProc(s).pc = "done" /\ ttl_elapsed

\* The process of a stage Job that has just been created.
Started(s) ==
    [NoProc EXCEPT !.pc = IF s = "texam" THEN "create" ELSE "run", !.attempt = attempt]

\* tif_execution / texam_execution / tof_execution with work to do: a new
\* execution object and its start_job.  The stage raises when the object
\* cannot be built, when the platform call fails or when a Job of that name
\* still exists; the except block of the stage then writes SYSTEM_ERROR and
\* re-raises.
Torc_start_job ==
    /\ torcPc = "stage"
    /\ ~StageSkipped(torcStage)
    /\ message' = NoMessage
    /\ subscribed' = FALSE
    /\ inbox' = <<>>
    /\ \E ok \in BOOLEAN, ttl_elapsed \in BOOLEAN :
        IF ok /\ NameFree(torcStage, ttl_elapsed)
        THEN /\ torcPc' = "subscribe"
             /\ state' = state
             /\ tif' = IF torcStage = "tif" THEN Started("tif") ELSE tif
             /\ texam' = IF torcStage = "texam" THEN Started("texam") ELSE texam
             /\ tof' = IF torcStage = "tof" THEN Started("tof") ELSE tof
        ELSE /\ torcPc' = "except"
             /\ state' = update_task_state(state, "SYSTEM_ERROR")
             /\ UNCHANGED <<tif, texam, tof>>
    /\ UNCHANGED <<user_id, task, logs, apiPc, torcStage, attempt, delays, pvc,
                   execJob, cancelVars, stageFailed>>
    /\ UNCHANGED sideVars

\* TorcExecutionTemplate.wait: pubsub.subscribe(channel)
Torc_subscribe ==
    /\ torcPc = "subscribe"
    /\ subscribed' = TRUE
    /\ torcPc' = "wait"
    /\ UNCHANGED <<docVars, apiPc, torcStage, attempt, delays, pvc, message, inbox,
                   stageVars, cancelVars, stageFailed>>
    /\ UNCHANGED sideVars

\* TorcExecutionTemplate.wait and log: the first message of the subscription
\* is kept and the channel is never read again by this instance.  An ERROR
\* message is written to the system logs with the end time, RuntimeError is
\* raised and the except block of the stage writes SYSTEM_ERROR; any other
\* message lets the stage return.
Torc_wait ==
    /\ torcPc = "wait"
    /\ inbox # <<>>
    /\ message' = Head(inbox)
    /\ inbox' = <<>>
    /\ subscribed' = FALSE
    /\ IF Head(inbox).status = "ERROR"
       THEN /\ logs' = IF HasTaskLog(logs)
                       THEN add_tes_task_log_end_time(add_tes_task_system_logs(logs))
                       ELSE logs
            /\ state' = update_task_state(state, "SYSTEM_ERROR")
            /\ torcPc' = "except"
            /\ torcStage' = torcStage
       ELSE /\ logs' = logs
            /\ state' = state
            /\ torcPc' = AfterStage(torcStage).pc
            /\ torcStage' = AfterStage(torcStage).stage
    /\ UNCHANGED <<user_id, task, apiPc, attempt, delays, pvc, stageVars, cancelVars,
                   stageFailed>>
    /\ UNCHANGED sideVars

\* Torc.execute after the stages: add_tes_task_system_logs,
\* add_tes_task_log_end_time, update_task_state(COMPLETE), delete_pvc, break.
Torc_execute_finish ==
    /\ torcPc = "finish"
    /\ \E raises \in {"nothing", "add_tes_task_system_logs", "add_tes_task_log_end_time",
                      "update_task_state", "delete_pvc"} :
        LET r1 == raises = "add_tes_task_system_logs" \/ ~HasTaskLog(logs)
            r2 == r1 \/ raises = "add_tes_task_log_end_time"
            r3 == r2 \/ raises = "update_task_state"
            r4 == r3 \/ raises = "delete_pvc"
        IN /\ logs' = CASE r1 -> logs
                        [] ~r1 /\ r2 -> add_tes_task_system_logs(logs)
                        [] OTHER -> add_tes_task_log_end_time(add_tes_task_system_logs(logs))
           /\ state' = IF r3 THEN state ELSE update_task_state(state, "COMPLETE")
           /\ pvc' = IF r4 THEN pvc ELSE FALSE
           /\ torcPc' = IF r4 THEN "except" ELSE "done"
    /\ message' = NoMessage
    /\ UNCHANGED <<user_id, task, apiPc, torcStage, attempt, delays, brokerVars, stageVars,
                   cancelVars, stageFailed>>
    /\ UNCHANGED sideVars

\* Torc.execute, the except block: add_tes_task_system_logs,
\* add_tes_task_log_end_time, delete_pvc; then raise on the last attempt,
\* else sleep and start the next iteration.  The two log calls raise on a
\* document without a TaskLog, and an exception inside the except block
\* leaves execute.  The block does not write the task state.
Torc_execute_except ==
    /\ torcPc = "except"
    /\ \E raises \in {"nothing", "add_tes_task_system_logs", "add_tes_task_log_end_time",
                      "delete_pvc"} :
        LET r1 == raises = "add_tes_task_system_logs" \/ ~HasTaskLog(logs)
            r2 == r1 \/ raises = "add_tes_task_log_end_time"
            r3 == r2 \/ raises = "delete_pvc"
            again == ~r3 /\ attempt < max_retries - 1
        IN /\ logs' = CASE r1 -> logs
                        [] ~r1 /\ r2 -> add_tes_task_system_logs(logs)
                        [] OTHER -> add_tes_task_log_end_time(add_tes_task_system_logs(logs))
           /\ pvc' = IF r3 THEN pvc ELSE FALSE
           /\ torcPc' = IF again THEN "try" ELSE "raised"
           /\ attempt' = IF again THEN attempt + 1 ELSE attempt
           /\ delays' = IF again THEN Append(delays, backoff_delay(attempt)) ELSE delays
    /\ torcStage' = "none"
    /\ message' = NoMessage
    /\ stageFailed' = FALSE
    /\ UNCHANGED <<state, user_id, task, apiPc, brokerVars, stageVars, cancelVars>>
    /\ UNCHANGED sideVars

TorcNext ==
    \/ Torc_execute_try
    \/ Torc_skip_stage
    \/ Torc_start_job
    \/ Torc_subscribe
    \/ Torc_wait
    \/ Torc_execute_finish
    \/ Torc_execute_except

\* ------------------------------------------------------------ Tif and Tof
\* A stage process that has exited: its Job remains, with what it published
\* and whether its work failed.
Exited(p) == [NoProc EXCEPT !.pc = "done", !.pubs = p.pubs, !.failed = p.failed]

\* Torc.execute is running.
TorcAlive == torcPc \notin {"none", "done", "raised", "killed"}

\* The work of stage process p has failed: noted when p belongs to the
\* attempt Torc is in.
NoteFailure(p) ==
    IF p.attempt = attempt /\ TorcAlive THEN TRUE ELSE stageFailed

\* Filer.execute with Tif.file / Tof.file.  When every transfer succeeds,
\* execute publishes Message("Filer completed.").  On the first failing
\* transfer file() publishes Message("TIF failed: ..."), whose status is the
\* default of Message, SUCCESS, and re-raises.
Filer_file(s) ==
    /\ StageProc(s).pc = "run"
    /\ \E ok \in BOOLEAN :
        LET p == StageProc(s)
            m == Msg(s, p.attempt, "SUCCESS")
            r == [p EXCEPT !.failed = ~ok, !.pubs = Append(@, "SUCCESS")]
            q == IF ok THEN Exited(r) ELSE [r EXCEPT !.pc = "except"]
        IN /\ inbox' = publish(inbox, subscribed, m)
           /\ stageFailed' = IF ok THEN stageFailed ELSE NoteFailure(p)
           /\ tif' = IF s = "tif" THEN q ELSE tif
           /\ tof' = IF s = "tof" THEN q ELSE tof
    /\ UNCHANGED <<docVars, apiPc, torcVars, subscribed, texam, execJob, cancelVars>>
    /\ UNCHANGED sideVars

\* Filer.execute, except block: publish Message(status=ERROR, "Filer failed:
\* ...") and sys.exit(1).
Filer_except(s) ==
    /\ StageProc(s).pc = "except"
    /\ LET p == StageProc(s)
           m == Msg(s, p.attempt, "ERROR")
           q == Exited([p EXCEPT !.pubs = Append(@, "ERROR")])
       IN /\ inbox' = publish(inbox, subscribed, m)
          /\ tif' = IF s = "tif" THEN q ELSE tif
          /\ tof' = IF s = "tof" THEN q ELSE tof
    /\ UNCHANGED <<docVars, apiPc, torcVars, subscribed, texam, execJob, cancelVars,
                   stageFailed>>
    /\ UNCHANGED sideVars

\* ----------------------------------------------------------------- Texam
RECURSIVE MarkRemaining(_, _, _, _)
\* Texam.execute after executor idx has failed, the loop over the remaining
\* executors: add_task_executor_log and
\* update_executor_log(te-<id>-<remaining_idx>, FAILED, "Executor
\* {remaining_idx} failed to start because executor {idx} failed.").
MarkRemaining(ls, remaining_idx, n, idx) ==
    IF remaining_idx >= n
    THEN ls
    ELSE MarkRemaining(update_executor_log(add_task_executor_log(ls), remaining_idx,
                                           "Failed",
                                           Stderr("not_started", remaining_idx, idx)),
                       remaining_idx + 1, n, idx)

\* A Texam that goes on to the next executor whatever the last one returned.
AfterExecutor_continue(p, success) ==
    IF p.idx + 1 < task.executors
    THEN [p EXCEPT !.idx = @ + 1, !.pc = "create", !.failed = @ \/ ~success]
    ELSE [p EXCEPT !.failed = @ \/ ~success, !.pc = "message"]

\* Texam.execute after run_single_executor(executor idx) has returned
\* success: the next executor, or message() after the last one; when it
\* returned False, self.failed = True and the loop is left.
AfterExecutor(p, success) ==
    IF success /\ p.idx + 1 < task.executors
    THEN [p EXCEPT !.idx = @ + 1, !.pc = "create"]
    ELSE [p EXCEPT !.failed = ~success, !.pc = "message"]

\* Texam.create_executor_job: the backoff loop of create_job and
\* add_task_executor_log, with delete_job after a failed iteration.  When no
\* iteration succeeds, update_executor_log(FAILED) and return False; execute
\* then marks the remaining executors.
Texam_create_executor_job ==
    /\ texam.pc = "create"
    /\ \E created \in BOOLEAN, pod \in {"running", "waiting"} :
        IF created /\ HasTaskLog(logs)
        THEN /\ execJob' = [execJob EXCEPT ![texam.idx] = pod]
             /\ logs' = add_task_executor_log(logs)
             /\ texam' = [texam EXCEPT !.pc = "monitor"]
             /\ stageFailed' = stageFailed
        ELSE /\ execJob' = [execJob EXCEPT ![texam.idx] = "none"]
             /\ logs' = IF HasTaskLog(logs)
                        THEN MarkRemaining(
                                 update_executor_log(logs, texam.idx, "Failed",
                                                     Stderr("create_failed", -1, -1)),
                                 texam.idx + 1, task.executors, texam.idx)
                        ELSE logs
             /\ texam' = AfterExecutor(texam, FALSE)
             /\ stageFailed' = NoteFailure(texam)
    /\ UNCHANGED <<state, user_id, task, apiPc, torcVars, brokerVars, tif, tof,
                   cancelVars>>
    /\ UNCHANGED sideVars

\* What the watch on the executor Job can end with.  The watch reads the
\* conditions of the Job and nothing of its pods: a Job whose pod never
\* starts gets neither condition, and its watch ends by timeout_seconds or
\* by an exception.
WatchOutcomes(job) ==
    IF job = "waiting"
    THEN {"timed_out", "monitor_error"}
    ELSE {"complete", "failed", "timed_out", "monitor_error"}

\* Texam.monitor_executor_job: the watch on the executor Job.  Condition
\* Complete=True: update_executor_log(SUCCEEDED), return True.  Condition
\* Failed=True, the watch ending without a terminal condition, or an
\* exception of the watch: update_executor_log(FAILED), return False, and
\* execute marks the remaining executors.
Texam_monitor_executor_job ==
    /\ texam.pc = "monitor"
    /\ \E seen \in WatchOutcomes(execJob[texam.idx]) :
        LET success == seen = "complete"
            why == IF seen \in {"complete", "failed"} THEN "job_logs" ELSE seen
            logged == update_executor_log(logs, texam.idx,
                                          IF success THEN "Succeeded" ELSE "Failed",
                                          Stderr(why, -1, -1))
        IN /\ execJob' = [execJob EXCEPT ![texam.idx] =
                             IF seen \in {"complete", "failed"} THEN seen ELSE @]
           /\ logs' = IF success \/ ~HasTaskLog(logs)
                      THEN logged
                      ELSE MarkRemaining(logged, texam.idx + 1, task.executors, texam.idx)
           /\ texam' = AfterExecutor(texam, success)
           /\ stageFailed' = IF success THEN stageFailed ELSE NoteFailure(texam)
    /\ UNCHANGED <<state, user_id, task, apiPc, torcVars, brokerVars, tif, tof,
                   cancelVars>>
    /\ UNCHANGED sideVars

\* The executor Jobs stay behind when Texam exits; from then on nobody
\* watches them and only their existence matters.
LeftBehind(jobs) == [i \in ExecIdx |-> IF jobs[i] = "none" THEN "none" ELSE "left"]

\* A Texam whose message carries the default status of Message.
message_status_default(failed) == "SUCCESS"

\* Texam.message, the status of the Message: ERROR when self.failed.
message_status(failed) == IF failed THEN "ERROR" ELSE "SUCCESS"

\* Texam.message: publish ERROR when self.failed, else SUCCESS; then exit.
Texam_message ==
    /\ texam.pc = "message"
    /\ LET st == message_status(texam.failed)
       IN /\ inbox' = publish(inbox, subscribed, Msg("texam", texam.attempt, st))
          /\ texam' = Exited([texam EXCEPT !.pubs = Append(@, st)])
    /\ execJob' = LeftBehind(execJob)
    /\ UNCHANGED <<docVars, apiPc, torcVars, subscribed, tif, tof, cancelVars,
                   stageFailed>>
    /\ UNCHANGED sideVars

StageNext ==
    \/ \E s \in {"tif", "tof"} : Filer_file(s)
    \/ \E s \in {"tif", "tof"} : Filer_except(s)
    \/ Texam_create_executor_job
    \/ Texam_monitor_executor_job
    \/ Texam_message

\* -------------------------------------------------- CancelTaskController
\* CancelTaskController.execute up to the state write: what the request is
\* answered with.  get_task raises DBException (HTTP 500, "db_error") when
\* no document has the id; a document of another user gives
\* NotFoundException; a state of COMPLETE, CANCELED or CANCELING gives
\* BadRequestException; otherwise the request is accepted.
CancelResponse(caller) ==
    CASE state = "ABSENT" -> "DBError"
      [] state # "ABSENT" /\ user_id # caller -> "NotFound"
      [] state # "ABSENT" /\ user_id = caller
         /\ state \in {"COMPLETE", "CANCELED", "CANCELING"} -> "BadRequest"
      [] OTHER -> "OK"

\* A cleanup that deletes the pods before the Jobs that own them.
resources_unordered == <<"pods", "jobs", "pvcs">>

\* _clean_task_task_resources, the list of resource classes in the order in
\* which the loop takes them.
resources == <<"jobs", "pods", "pvcs">>

\* The resource class the loop takes after r; "idle" after the last one.
AfterResource(r) ==
    IF r = resources[1] THEN resources[2]
    ELSE IF r = resources[2] THEN resources[3]
    ELSE "idle"

\* CancelTaskController.execute: an accepted request writes CANCELING and
\* schedules _clean_task_resources_and_set_final_state.  One cleanup task is
\* modelled: a request that would be accepted arrives while no cleanup is in
\* flight.
CancelTask ==
    /\ cancelCount < MaxCancelRequests
    /\ cancelCount' = cancelCount + 1
    /\ \E caller \in Users :
        /\ cancelPc = "idle" \/ CancelResponse(caller) # "OK"
        /\ cancelUser' = caller
        /\ cancelResp' = CancelResponse(caller)
        /\ state' = IF CancelResponse(caller) = "OK"
                    THEN update_task_state(state, "CANCELING")
                    ELSE state
        /\ cancelPc' = IF CancelResponse(caller) = "OK" THEN resources[1] ELSE cancelPc
        /\ cleaned' = IF CancelResponse(caller) = "OK" THEN <<>> ELSE cleaned
    /\ UNCHANGED <<user_id, task, logs, apiPc, torcVars, brokerVars, stageVars,
                   stageFailed>>
    /\ UNCHANGED sideVars

\* The Jobs that carry the label tes-task-id=<id>: the Torc Job and the Texam
\* Job are built with get_labels; the Tif, Tof and executor Jobs and the PVC
\* are built without that label.
TorcJobExists == torcPc \notin {"none", "killed"}

\* A deletion that leaves the pod of the Job running.
Terminated_orphaned(pc) == pc

\* The process of a deleted Job: its pod is terminated with it.
Terminated(pc) == "killed"
TexamJobExists == texam.pc # "none"

\* _clean_task_task_resources, the loop over the Jobs: while
\* list_jobs_by_label returns some and try_count <= max_retries,
\* delete_jobs_by_label.  With the Job its pod goes, and the process in it
\* stops where it is.  The loop ends with the Jobs deleted, or with them
\* still there (ApiException, or every round without effect).
Cancel_clean_jobs ==
    /\ cancelPc = "jobs"
    /\ cancelPc' = AfterResource("jobs")
    /\ cleaned' = Append(cleaned, "jobs")
    /\ \E deleted \in BOOLEAN :
        IF deleted /\ (TorcJobExists \/ TexamJobExists)
        THEN /\ torcPc' = IF TorcJobExists THEN Terminated(torcPc) ELSE torcPc
             /\ torcStage' = "none"
             /\ message' = NoMessage
             /\ subscribed' = FALSE
             /\ inbox' = <<>>
             /\ stageFailed' = FALSE
             /\ texam' = NoProc
             /\ execJob' = LeftBehind(execJob)
        ELSE UNCHANGED <<torcPc, torcStage, message, subscribed, inbox, stageFailed,
                         texam, execJob>>
    /\ UNCHANGED <<docVars, apiPc, attempt, delays, pvc, tif, tof, cancelUser, cancelResp,
                   cancelCount>>
    /\ UNCHANGED sideVars

\* _clean_task_task_resources, the loop over the pods with the label: the
\* pods of the Torc Job and of the Texam Job.  A deleted pod ends its
\* process; the Job object remains.
Cancel_clean_pods ==
    /\ cancelPc = "pods"
    /\ cancelPc' = AfterResource("pods")
    /\ cleaned' = Append(cleaned, "pods")
    /\ \E deleted \in BOOLEAN :
        IF deleted /\ (TorcAlive \/ texam.pc \notin {"none", "done"})
        THEN /\ torcPc' = IF TorcAlive THEN "killed" ELSE torcPc
             /\ torcStage' = "none"
             /\ message' = NoMessage
             /\ subscribed' = FALSE
             /\ inbox' = <<>>
             /\ stageFailed' = FALSE
             /\ texam' = IF texam.pc \in {"none", "done"} THEN texam ELSE Exited(texam)
             /\ execJob' = LeftBehind(execJob)
        ELSE UNCHANGED <<torcPc, torcStage, message, subscribed, inbox, stageFailed,
                         texam, execJob>>
    /\ UNCHANGED <<docVars, apiPc, attempt, delays, pvc, tif, tof, cancelUser, cancelResp,
                   cancelCount>>
    /\ UNCHANGED sideVars

\* _clean_task_task_resources, the loop over the PVCs with the label (the
\* PVC of the task is created without it, so the list is empty).
Cancel_clean_pvcs ==
    /\ cancelPc = "pvcs"
    /\ cancelPc' = IF AfterResource("pvcs") = "idle" THEN "final" ELSE AfterResource("pvcs")
    /\ cleaned' = Append(cleaned, "pvcs")
    /\ UNCHANGED <<docVars, apiPc, torcVars, brokerVars, stageVars,
                   cancelUser, cancelResp, cancelCount, stageFailed>>
    /\ UNCHANGED sideVars

\* _clean_task_resources_and_set_final_state after the cleanup has returned:
\* update_task_state(CANCELED).
Cancel_set_final_state ==
    /\ cancelPc = "final"
    /\ cancelPc' = "idle"
    /\ cleaned' = cleaned
    /\ state' = update_task_state(state, "CANCELED")
    /\ UNCHANGED <<user_id, task, logs, apiPc, torcVars, brokerVars, stageVars,
                   cancelUser, cancelResp, cancelCount, stageFailed>>
    /\ UNCHANGED sideVars

CancelNext ==
    \/ CancelTask
    \/ Cancel_clean_jobs
    \/ Cancel_clean_pods
    \/ Cancel_clean_pvcs
    \/ Cancel_set_final_state

Next == CreateTask \/ create_torc_job \/ TorcNext \/ StageNext
        \/ CancelNext

Spec == Init /\ [][Next]_vars

\* The API handler's background task, Torc, the stage processes and the
\* cleanup task are scheduled fairly: asyncio runs every ready task and the
\* platform runs every created Job.  Cancel requests are up to the user.
FairSpec ==
    /\ Spec
    /\ WF_vars(create_torc_job)
    /\ WF_vars(TorcNext)
    /\ WF_vars(StageNext)
    /\ WF_vars(Cancel_clean_jobs \/ Cancel_clean_pods \/ Cancel_clean_pvcs
               \/ Cancel_set_final_state)

\* ------------------------------------------------------------- ListTasks
\* The _ids of the task collection: ObjectIds grow with the insertion order
\* and str(ObjectId) / ObjectId(str) are inverse to each other, so an _id
\* and the token made from it are the same number here.
TaskIds == 1 .. MaxTasks

RECURSIVE SortedSeq(_)
\* cursor.sort("_id", 1).to_list(None)
SortedSeq(S) ==
    IF S = {} THEN <<>>
    ELSE LET lo == CHOOSE x \in S : \A y \in S : x <= y
         IN <<lo>> \o SortedSeq(S \ {lo})

\* docs[:n]
Slice(docs, n) == SubSeq(docs, 1, IF n < Len(docs) THEN n ELSE Len(docs))

\* MongoDBClient.list_tasks(query, n, next_page_token): the documents that
\* match the query, with _id > ObjectId(next_page_token) when there is a
\* token, sorted by _id and limited to n + 1; the tasks are docs[:n] and the
\* new token is str(docs[n]["_id"]) when there are more than n documents.
list_tasks(query, n, next_page_token) ==
    LET found == {d \in query : next_page_token = 0 \/ d > next_page_token}
        docs == Slice(SortedSeq(found), n + 1)
    IN [tasks |-> Slice(docs, n),
        next_token |-> IF Len(docs) > n THEN docs[n + 1] ELSE 0]

\* A collection, a query that matches some of its documents and a page
\* size; no request has been made.
ListInit ==
    /\ InitTask
    /\ TagsOff
    /\ UploadOff
    /\ CleanupOff
    /\ BackoffOff
    /\ ExecLogOff
    /\ matching \in SUBSET TaskIds
    /\ page_size \in 1 .. MaxPageSize
    /\ page_token = 0
    /\ collected = <<>>
    /\ listPc = "first"
    /\ FilerOff
    /\ WritersOff
    /\ StatesOff
    /\ AccessOff

\* ListTasksController.execute without page_token.
ListTasks_first ==
    /\ listPc = "first"
    /\ LET page == list_tasks(matching, page_size, 0)
       IN /\ collected' = page.tasks
          /\ page_token' = page.next_token
          /\ listPc' = IF page.next_token = 0 THEN "done" ELSE "follow"
    /\ UNCHANGED <<matching, page_size>>
    /\ UNCHANGED <<taskVars, filerVars, writerVars, stateVars, accessVars, execLogVars, backoffVars, cleanupVars, uploadVars, tagVars>>

\* ListTasksController.execute with the next_page_token of the last response.
ListTasks_follow ==
    /\ listPc = "follow"
    /\ LET page == list_tasks(matching, page_size, page_token)
       IN /\ collected' = collected \o page.tasks
          /\ page_token' = page.next_token
          /\ listPc' = IF page.next_token = 0 THEN "done" ELSE "follow"
    /\ UNCHANGED <<matching, page_size>>
    /\ UNCHANGED <<taskVars, filerVars, writerVars, stateVars, accessVars, execLogVars, backoffVars, cleanupVars, uploadVars, tagVars>>

ListNext == ListTasks_first \/ ListTasks_follow

ListSpec == ListInit /\ [][ListNext]_vars

\* ----------------------------------------------------------------- Filer
\* The urls of inputs and outputs.  A url is the sequence of its parts:
\* <<>> is None, <<"">> the empty string, <<rest>> a text without a colon,
\* <<scheme, ":", rest>> a text whose first colon follows scheme.
Schemes == {"", "file", "FILE", "s3", "S3", "http", "HTTP", "https", "ftp", "gs"}
Rests == {"//host/a", "/data/a", "a"}
Uris ==
    {<<>>, <<"">>} \cup {<<rest>> : rest \in Rests}
    \cup {<<scheme, ":", rest>> : scheme \in Schemes, rest \in Rests}

\* urlparse(uri).scheme: the text before the first colon, "" without one.
urlparse_scheme(u) == IF Len(u) = 3 /\ u[2] = ":" THEN u[1] ELSE ""

\* str.lower on the schemes
lower(s) ==
    CASE s = "FILE" -> "file"
      [] s = "S3" -> "s3"
      [] s = "HTTP" -> "http"
      [] OTHER -> s

\* STRATEGY_MAP: the strategy class of each scheme it has, "missing" for
\* STRATEGY_MAP.get(scheme) is None.
STRATEGY_MAP(scheme) ==
    CASE scheme = "" -> "LocalFilerStrategy"
      [] scheme = "file" -> "LocalFilerStrategy"
      [] scheme = "s3" -> "S3FilerStrategy"
      [] scheme = "http" -> "HttpFilerStrategy"
      [] scheme = "https" -> "HttpFilerStrategy"
      [] OTHER -> "missing"

\* FilerStrategyFactory.create_strategy(uri, payload): None and "" are
\* falsy and give ContentFilerStrategy; a scheme that STRATEGY_MAP does not
\* have raises ValueError.  The payload is handed to the strategy and has
\* no part in the choice.
create_strategy(u, p) ==
    IF u = <<>> \/ u = <<"">>
    THEN "ContentFilerStrategy"
    ELSE IF STRATEGY_MAP(lower(urlparse_scheme(u))) = "missing"
         THEN "ValueError"
         ELSE STRATEGY_MAP(lower(urlparse_scheme(u)))

\* An input or output with its url; no strategy has been asked for.
FilerInit ==
    /\ InitTask
    /\ TagsOff
    /\ UploadOff
    /\ CleanupOff
    /\ BackoffOff
    /\ ExecLogOff
    /\ ListOff
    /\ WritersOff
    /\ StatesOff
    /\ AccessOff
    /\ uri \in Uris
    /\ payload \in {"TesInput", "TesOutput"}
    /\ strategy = "none"

\* Tif.file / Tof.file for one input or output: create_strategy(url, payload).
Filer_create_strategy ==
    /\ strategy = "none"
    /\ strategy' = create_strategy(uri, payload)
    /\ UNCHANGED <<uri, payload, taskVars, listVars, writerVars, stateVars, accessVars, execLogVars, backoffVars, cleanupVars, uploadVars, tagVars>>

FilerNext == Filer_create_strategy

FilerSpec == FilerInit /\ [][FilerNext]_vars

\* ----------------------------------------------------- two log writers
\* The operations of MongoDBClient that write data.logs: the ones Torc
\* calls and the ones Texam calls.  Torc and Texam are two processes.
TorcLogOps == {"add_task_log", "add_tes_task_system_logs", "add_tes_task_log_end_time"}
TexamLogOps == {"add_task_executor_log", "update_executor_log"}

\* Operation o raises on the data.logs it has got, before its update_one:
\* data.logs[-1] on an empty list, data.logs[-1].logs[idx] without an
\* ExecutorLog at idx.
Raises(o, ls) ==
    CASE o = "add_task_log" -> FALSE
      [] o = "update_executor_log" ->
            ~(HasTaskLog(ls) /\ 1 <= Len(ls[Len(ls)].logs))
      [] OTHER -> ~HasTaskLog(ls)

\* What operation o makes of the data.logs it has got from get_task;
\* update_executor_log is the call for executor 0 of a failed Job.  An
\* operation that raises leaves the list as it is.
Modified(o, ls) ==
    CASE Raises(o, ls) -> ls
      [] ~Raises(o, ls) /\ o = "add_task_log" -> add_task_log(ls)
      [] ~Raises(o, ls) /\ o = "add_task_executor_log" -> add_task_executor_log(ls)
      [] ~Raises(o, ls) /\ o = "update_executor_log" ->
            update_executor_log(ls, 0, "Failed", Stderr("job_logs", -1, -1))
      [] ~Raises(o, ls) /\ o = "add_tes_task_system_logs" -> add_tes_task_system_logs(ls)
      [] OTHER -> add_tes_task_log_end_time(ls)

\* The documents the writers start from: no TaskLog, the TaskLog of a new
\* attempt, that TaskLog with the ExecutorLog of the first executor, and
\* the same three after an earlier attempt.
StartLogs ==
    {<<>>, <<NewTaskLog>>, add_task_executor_log(<<NewTaskLog>>),
     <<Archived>>, <<Archived, NewTaskLog>>,
     add_task_executor_log(<<Archived, NewTaskLog>>)}

\* Two processes are about to run one log operation each on the document.
WritersInit ==
    /\ InitTask
    /\ TagsOff
    /\ UploadOff
    /\ CleanupOff
    /\ BackoffOff
    /\ ExecLogOff
    /\ ListOff
    /\ FilerOff
    /\ StatesOff
    /\ AccessOff
    /\ stored \in StartLogs
    /\ stored0 = stored
    /\ op \in {<<a, b>> : a \in TorcLogOps, b \in TexamLogOps}
    /\ opPc = [w \in 1 .. 2 |-> "get_task"]
    /\ fetched = [w \in 1 .. 2 |-> <<>>]

\* The first half of a log operation: task = await self.get_task(task_id).
Writer_get_task(w) ==
    /\ opPc[w] = "get_task"
    /\ fetched' = [fetched EXCEPT ![w] = stored]
    /\ opPc' = [opPc EXCEPT ![w] = "update_one"]
    /\ UNCHANGED <<stored, stored0, op, taskVars, listVars, filerVars, stateVars, accessVars, execLogVars, backoffVars, cleanupVars, uploadVars, tagVars>>

\* The second half: the change is made on the task that was read and
\* update_one sets data.logs to the whole list of that task; an operation
\* that has raised does not reach update_one.
Writer_update_one(w) ==
    /\ opPc[w] = "update_one"
    /\ stored' = IF Raises(op[w], fetched[w])
                  THEN stored
                  ELSE Modified(op[w], fetched[w])
    /\ opPc' = [opPc EXCEPT ![w] = "done"]
    /\ UNCHANGED <<stored0, op, fetched, taskVars, listVars, filerVars, stateVars, accessVars, execLogVars, backoffVars, cleanupVars, uploadVars, tagVars>>

WritersNext == \E w \in 1 .. 2 : Writer_get_task(w) \/ Writer_update_one(w)

WritersSpec == WritersInit /\ [][WritersNext]_vars

\* ---------------------------------------------------------- state writes
\* The states that the code passes to update_task_state or stores at
\* creation.
WrittenStates ==
    {"INITIALIZING", "RUNNING", "COMPLETE", "SYSTEM_ERROR", "CANCELING", "CANCELED"}

\* An update_task_state that writes the top-level state only.
update_task_state_top_level(d, new, now) ==
    IF d.data_state # new
    THEN [d EXCEPT !.state = new, !.updated_at = now]
    ELSE d

\* MongoDBClient.update_task_state on the whole document: when data.state
\* differs from the argument, $set of state, updated_at and data.state;
\* otherwise no update_one at all.
update_task_state_document(d, new, now) ==
    IF d.data_state # new
    THEN [d EXCEPT !.state = new, !.updated_at = now, !.data_state = new]
    ELSE d

\* _create_dummy_task_document: task.state = INITIALIZING for data, and
\* TaskSchema(state=INITIALIZING, user_id=..., data=task), created at time 0.
create_dummy_task_document(u) ==
    [state |-> "INITIALIZING", data_state |-> "INITIALIZING", updated_at |-> 0,
     user_id |-> u, data_logs |-> 0]

\* The operations of MongoDBClient that $set data.logs, and that alone.
LogOps == TorcLogOps \cup TexamLogOps

\* No task is stored.
StatesInit ==
    /\ InitTask
    /\ TagsOff
    /\ UploadOff
    /\ CleanupOff
    /\ BackoffOff
    /\ ExecLogOff
    /\ ListOff
    /\ FilerOff
    /\ WritersOff
    /\ document = NoDocument
    /\ clock = 0
    /\ requested = "none"
    /\ AccessOff

\* CreateTaskController.execute: insert_task of the new document.
InsertTask ==
    /\ document = NoDocument
    /\ \E u \in Users : document' = create_dummy_task_document(u)
    /\ UNCHANGED <<clock, requested>>
    /\ UNCHANGED <<taskVars, listVars, filerVars, writerVars, accessVars, execLogVars, backoffVars, cleanupVars, uploadVars, tagVars>>

\* One of the log operations on the stored task: update_one with
\* {"$set": {"data.logs": ...}}.
WriteLogs ==
    /\ document # NoDocument
    /\ document.data_logs < MaxLogged
    /\ \E o \in LogOps : document' = [document EXCEPT !.data_logs = @ + 1]
    /\ UNCHANGED <<clock, requested>>
    /\ UNCHANGED <<taskVars, listVars, filerVars, writerVars, accessVars, execLogVars, backoffVars, cleanupVars, uploadVars, tagVars>>

\* One call of update_task_state(task_id, new) by any of the processes on
\* the stored task.
UpdateTaskState ==
    /\ document # NoDocument
    /\ clock < MaxCalls
    /\ \E new \in WrittenStates :
          /\ requested' = new
          /\ document' = update_task_state_document(document, new, clock + 1)
    /\ clock' = clock + 1
    /\ UNCHANGED <<taskVars, listVars, filerVars, writerVars, accessVars, execLogVars, backoffVars, cleanupVars, uploadVars, tagVars>>

StatesNext == InsertTask \/ WriteLogs \/ UpdateTaskState

StatesSpec == StatesInit /\ [][StatesNext]_vars

\* ---------------------------------------------------------------- access
\* context.context.get("user") of a request: the user of the token, None
\* when the context has none.  CreateTask stores it as the task's user_id.
Callers == Users \cup {"None"}

StoredIds == 1 .. MaxStored

\* MongoDBClient.get_task: find_one by task_id, DBException without a
\* document.
get_task(owners, id) == IF owners[id] = "absent" THEN "DBException" ELSE "task"

\* GetTaskController.execute: the exception of get_task goes to the caller;
\* a task of another user_id is answered like `not task`.
GetTaskResponse(owners, id, caller) ==
    IF get_task(owners, id) = "DBException" THEN "DBException"
    ELSE IF owners[id] # caller THEN "NotFound"
    ELSE "task"

\* ListTasksController._build_query, the user part: the filter on user_id
\* is added only for a truthy user_id.
build_query(owners, caller) ==
    {t \in StoredIds : /\ owners[t] # "absent"
                        /\ (caller # "None" => owners[t] = caller)}

\* A collection of tasks of the users.
AccessInit ==
    /\ InitTask
    /\ TagsOff
    /\ UploadOff
    /\ CleanupOff
    /\ BackoffOff
    /\ ExecLogOff
    /\ ListOff
    /\ FilerOff
    /\ WritersOff
    /\ StatesOff
    /\ owner \in [StoredIds -> Callers \cup {"absent"}]
    /\ answer = NoAnswer

\* GET /tasks/{id}
GetTask ==
    /\ \E id \in StoredIds, caller \in Callers :
          answer' = [op |-> "get", id |-> id, caller |-> caller,
                     kind |-> GetTaskResponse(owner, id, caller), tasks |-> {}]
    /\ UNCHANGED <<owner, taskVars, listVars, filerVars, writerVars, stateVars, execLogVars, backoffVars, cleanupVars, uploadVars, tagVars>>

\* GET /tasks, all its pages
ListTasks ==
    /\ \E caller \in Callers :
          answer' = [op |-> "list", id |-> 0, caller |-> caller, kind |-> "tasks",
                     tasks |-> build_query(owner, caller)]
    /\ UNCHANGED <<owner, taskVars, listVars, filerVars, writerVars, stateVars, execLogVars, backoffVars, cleanupVars, uploadVars, tagVars>>

AccessNext == GetTask \/ ListTasks

AccessSpec == AccessInit /\ [][AccessNext]_vars

\* ----------------------------------------------------- executor log names
\* The five parts of the id of the stored task, and those of an id no task
\* has.
TaskUuid == <<"a1", "b2", "c3", "d4", "e5">>
OtherUuid == <<"f6", "b2", "c3", "d4", "e5">>

\* Names update_executor_log can be called with: te-<uuid>-<idx> of the
\* stored task for each idx, and names that do not have that form.
PodNames ==
    {<<"te">> \o TaskUuid \o <<i>> : i \in {"0", "1", "2"}}
    \cup {<<"te">> \o OtherUuid \o <<"0">>,
          TaskUuid \o <<"0">>,
          <<"route">> \o TaskUuid \o <<"0">>,
          <<"x", "te">> \o TaskUuid \o <<"0">>,
          <<"te">> \o TaskUuid \o <<"x", "0">>,
          <<"te">> \o TaskUuid \o <<"abc">>,
          <<"te", "a1", "0">>}

\* The text of the part ends with TE_PREFIX.
EndsWithPrefix(part) == part \in {"te", "route"}

\* pod_name.split("te-")[-1]: what follows the last "te-" of the name, the
\* whole name when it has none.
pod_name_without_prefix(n) ==
    LET at == {i \in 1 .. (Len(n) - 1) : EndsWithPrefix(n[i])}
        last == IF at = {} THEN 0 ELSE CHOOSE i \in at : \A j \in at : j <= i
    IN SubSeq(n, last + 1, Len(n))

\* int(text) succeeds
IsInt(part) == part \in {"0", "1", "2"}

\* int(text)
int(part) == CASE part = "0" -> 0 [] part = "1" -> 1 [] OTHER -> 2

\* "-".join(parts[:5])
task_id_of(parts) == SubSeq(parts, 1, IF Len(parts) < 5 THEN Len(parts) ELSE 5)

\* MongoDBClient.update_executor_log as it is called, with the name: idx and
\* task_id are parsed from the name; ValueError of int, DBException of
\* get_task and IndexError of logs[-1].logs[idx] are caught and logged, and
\* the document is then not written.
update_executor_log_named(ls, n, phase, stderr) ==
    LET parts == pod_name_without_prefix(n)
    IN IF /\ IsInt(parts[Len(parts)])
          /\ task_id_of(parts) = TaskUuid
       THEN update_executor_log(ls, int(parts[Len(parts)]), phase, stderr)
       ELSE ls

\* data.logs of the stored task: without a TaskLog, with the TaskLog of an
\* attempt holding up to MaxLogged ExecutorLogs, the same after an earlier
\* attempt.
RECURSIVE WithExecutorLogs(_, _)
WithExecutorLogs(ls, k) ==
    IF k = 0 THEN ls ELSE WithExecutorLogs(add_task_executor_log(ls), k - 1)

ExecStartLogs ==
    {<<>>} \cup {WithExecutorLogs(<<NewTaskLog>>, k) : k \in 0 .. MaxLogged}
    \cup {WithExecutorLogs(<<Archived, NewTaskLog>>, k) : k \in 0 .. MaxLogged}

ExecLogInit ==
    /\ InitTask
    /\ TagsOff
    /\ UploadOff
    /\ CleanupOff
    /\ BackoffOff
    /\ ListOff
    /\ FilerOff
    /\ WritersOff
    /\ StatesOff
    /\ AccessOff
    /\ name_arg \in PodNames
    /\ phase_arg \in {"Succeeded", "Failed"}
    /\ before \in ExecStartLogs
    /\ after = before
    /\ execLogPc = "call"

\* One call update_executor_log(pod_name, pod_phase, stderr=<logs of the Job>).
UpdateExecutorLog ==
    /\ execLogPc = "call"
    /\ after' = update_executor_log_named(before, name_arg, phase_arg,
                                          Stderr("job_logs", -1, -1))
    /\ execLogPc' = "done"
    /\ UNCHANGED <<name_arg, phase_arg, before, taskVars, listVars, filerVars, writerVars, stateVars, accessVars, backoffVars, cleanupVars, uploadVars, tagVars>>

ExecLogNext == UpdateExecutorLog

ExecLogSpec == ExecLogInit /\ [][ExecLogNext]_vars

\* ---------------------------------------------- Texam.create_executor_job
\* min(a, b)
min(a, b) == IF a < b THEN a ELSE b

\* Texam is about to create the Job of executor exec_idx: the TaskLog of the
\* attempt holds the ExecutorLogs of the executors before it.
BackoffInit ==
    /\ InitTask
    /\ TagsOff
    /\ UploadOff
    /\ CleanupOff
    /\ ListOff
    /\ FilerOff
    /\ WritersOff
    /\ StatesOff
    /\ AccessOff
    /\ ExecLogOff
    /\ BACKOFF_LIMIT \in 1 .. MaxBackoffLimit
    /\ backoff_time = 1
    /\ create_calls = 0
    /\ delete_calls = 0
    /\ slept = <<>>
    /\ exec_idx \in ExecIdx
    /\ execLogs = WithExecutorLogs(<<NewTaskLog>>, exec_idx)
    /\ createPc = "loop"

\* One iteration of `while backoff_time < BACKOFF_LIMIT`: create_job and
\* add_task_executor_log, return True; or, when one of them raises,
\* delete_job, sleep(backoff_time) and the doubling limited by min.  An
\* exception of delete_job leaves the function.
Create_iteration ==
    /\ createPc = "loop"
    /\ backoff_time < BACKOFF_LIMIT
    /\ create_calls' = create_calls + 1
    /\ \E raises \in {"nothing", "create_job", "delete_job"} :
        CASE raises = "nothing" ->
               /\ execLogs' = add_task_executor_log(execLogs)
               /\ createPc' = "returned_true"
               /\ UNCHANGED <<backoff_time, delete_calls, slept>>
          [] raises = "create_job" ->
               /\ delete_calls' = delete_calls + 1
               /\ slept' = Append(slept, backoff_time)
               /\ backoff_time' = min(backoff_time * 2, BACKOFF_LIMIT)
               /\ UNCHANGED <<execLogs, createPc>>
          [] OTHER ->
               /\ createPc' = "raised"
               /\ UNCHANGED <<backoff_time, delete_calls, slept, execLogs>>
    /\ UNCHANGED <<BACKOFF_LIMIT, exec_idx, taskVars, listVars, filerVars, writerVars, stateVars, accessVars, execLogVars, cleanupVars, uploadVars, tagVars>>

\* After the loop: update_executor_log(executor_name, FAILED, stderr="Failed
\* to create executor job after multiple retries."), return False.
Create_give_up ==
    /\ createPc = "loop"
    /\ ~(backoff_time < BACKOFF_LIMIT)
    /\ execLogs' = update_executor_log(execLogs, exec_idx, "Failed",
                                       Stderr("create_failed", -1, -1))
    /\ createPc' = "returned_false"
    /\ UNCHANGED <<BACKOFF_LIMIT, backoff_time, create_calls, delete_calls, slept, exec_idx, taskVars, listVars, filerVars, writerVars, stateVars, accessVars, execLogVars, cleanupVars, uploadVars, tagVars>>

BackoffNext == Create_iteration \/ Create_give_up

BackoffSpec == BackoffInit /\ [][BackoffNext]_vars

\* ------------------------------------- _clean_task_task_resources, one pass
\* 2 << n
shift_left_2(n) == 2 * (2 ^ n)

\* The pass over one resource class starts: try_count = 0, and some
\* resources carry the label of the task.
CleanupInit ==
    /\ InitTask
    /\ TagsOff
    /\ UploadOff
    /\ ListOff
    /\ FilerOff
    /\ WritersOff
    /\ StatesOff
    /\ AccessOff
    /\ ExecLogOff
    /\ BackoffOff
    /\ resource \in {resources[i] : i \in 1 .. Len(resources)}
    /\ listed \in 0 .. MaxListed
    /\ try_count = 0
    /\ delete_calls_made = 0
    /\ sleeps = <<>>
    /\ cleanupPc = "while"

\* One iteration of `while await list_fn(...) and try_count <= max_retries`:
\* delete_fn, try_count += 1, sleep(2 << try_count).  The delete removes
\* some of the resources, all or none; an ApiException of list_fn or
\* delete_fn ends the pass.
Cleanup_iteration ==
    /\ cleanupPc = "while"
    /\ listed > 0 /\ try_count <= max_retries
    /\ \E raises \in BOOLEAN, left \in 0 .. listed :
        IF raises
        THEN /\ cleanupPc' = "except"
             /\ UNCHANGED <<listed, try_count, delete_calls_made, sleeps>>
        ELSE /\ delete_calls_made' = delete_calls_made + 1
             /\ listed' = left
             /\ try_count' = try_count + 1
             /\ sleeps' = Append(sleeps, shift_left_2(try_count + 1))
             /\ cleanupPc' = cleanupPc
    /\ UNCHANGED <<resource, taskVars, listVars, filerVars, writerVars, stateVars, accessVars, execLogVars, backoffVars, uploadVars, tagVars>>

\* The loop condition is false: the warning when resources are still
\* listed, and the next resource class.
Cleanup_leave ==
    /\ cleanupPc = "while"
    /\ ~(listed > 0 /\ try_count <= max_retries)
    /\ cleanupPc' = "done"
    /\ UNCHANGED <<resource, listed, try_count, delete_calls_made, sleeps, taskVars, listVars, filerVars, writerVars, stateVars, accessVars, execLogVars, backoffVars, uploadVars, tagVars>>

CleanupNext == Cleanup_iteration \/ Cleanup_leave

CleanupSpec == CleanupInit /\ [][CleanupNext]_vars

\* ---------------------------------------------------- FilerStrategy.upload
\* The characters paths are made of here: the separator, a letter, and two
\* of the characters of "*?[]{}".
PathChars == {"/", "w", "*", "]"}

\* Absolute paths of up to MaxPathLen characters.
OutPaths ==
    UNION {{<<"/">> \o [i \in 1 .. n |-> f[i]] : f \in [1 .. n -> PathChars]}
             : n \in 1 .. (MaxPathLen - 1)}

\* _path_contains_glob: any(char in path for char in "*?[]{}")
path_contains_glob(p) == \E i \in 1 .. Len(p) : p[i] \in {"*", "?", "[", "]", "{", "}"}

\* path.rfind("/", 0, end): the last separator among the first `end`
\* characters, 0 for the -1 of Python.
rfind_slash(p, end) ==
    LET at == {i \in 1 .. end : p[i] = "/"}
    IN IF at = {} THEN 0 ELSE CHOOSE i \in at : \A j \in at : j <= i

RECURSIVE rstrip_slash(_)
\* text.rstrip("/")
rstrip_slash(p) ==
    IF p # <<>> /\ p[Len(p)] = "/" THEN rstrip_slash(SubSeq(p, 1, Len(p) - 1)) ELSE p

RECURSIVE lstrip_slash(_)
\* text.lstrip("/")
lstrip_slash(p) ==
    IF p # <<>> /\ p[1] = "/" THEN lstrip_slash(Tail(p)) ELSE p

\* os.path.dirname: what precedes the last separator, without its trailing
\* separators unless it consists of separators only.
dirname(p) ==
    LET head == SubSeq(p, 1, rfind_slash(p, Len(p)))
    IN IF rstrip_slash(head) = <<>> THEN head ELSE rstrip_slash(head)

\* _infer_base_path: the search of re.compile(r"[\*\?\[\{]") for the first
\* wildcard, and the path up to the last separator before it; dirname when
\* the path has no glob character or the search finds nothing.
infer_base_path(p) ==
    LET found == {i \in 1 .. Len(p) : p[i] \in {"*", "?", "[", "{"}}
    IN IF ~path_contains_glob(p) \/ found = {}
       THEN dirname(p)
       ELSE LET pattern_start == CHOOSE i \in found : \A j \in found : i <= j
                last_slash == rfind_slash(p, pattern_start - 1)
            IN IF last_slash = 0 THEN <<"/">> ELSE SubSeq(p, 1, last_slash)

\* _get_container_path: os.path.join(FILER_PVC_PATH, path.lstrip("/"))
get_container_path(p) == <<"/", "transfer", "/">> \o lstrip_slash(p)

\* FilerStrategy.upload: which handler it calls and on what.
upload(path, prefix, type, matches, isfile) ==
    LET is_glob_like == path_contains_glob(path)
        container_path == get_container_path(path)
        the_prefix == IF is_glob_like /\ prefix = <<>> THEN infer_base_path(path)
                      ELSE prefix
    IN IF prefix # <<>> \/ is_glob_like
       THEN IF matches
            THEN [handler |-> "upload_glob", on |-> container_path]
            ELSE [handler |-> "upload_output_directory",
                  on |-> get_container_path(the_prefix)]
       ELSE IF type = "FILE" /\ isfile
            THEN [handler |-> "upload_output_file", on |-> container_path]
            ELSE [handler |-> "upload_output_directory", on |-> container_path]

\* An output and what the filer pod finds on the volume.
UploadInit ==
    /\ InitTask
    /\ TagsOff
    /\ ListOff
    /\ FilerOff
    /\ WritersOff
    /\ StatesOff
    /\ AccessOff
    /\ ExecLogOff
    /\ BackoffOff
    /\ CleanupOff
    /\ out_path \in OutPaths
    /\ path_prefix \in {<<>>, <<"/", "w", "/">>}
    /\ out_type \in {"FILE", "DIRECTORY"}
    /\ glob_matches \in BOOLEAN
    /\ is_file \in BOOLEAN
    /\ uploaded = [handler |-> "none", on |-> <<>>]
    /\ uploadPc = "call"

\* await strategy.upload()
Upload ==
    /\ uploadPc = "call"
    /\ uploaded' = upload(out_path, path_prefix, out_type, glob_matches, is_file)
    /\ uploadPc' = "done"
    /\ UNCHANGED <<out_path, path_prefix, out_type, glob_matches, is_file, taskVars, listVars, filerVars, writerVars, stateVars, accessVars, execLogVars, backoffVars, cleanupVars, tagVars>>

UploadNext == Upload

UploadSpec == UploadInit /\ [][UploadNext]_vars

\* ------------------------------------------------ ListTasks, the tag filter
TagKeys == {"k1", "k2"}
TagValues == {"", "v1", "v2"}

\* Lists of up to MaxTagParams elements of S.
ListsOf(S) == UNION {[1 .. n -> S] : n \in 0 .. MaxTagParams}

\* zip(a, b): the pairs up to the end of the shorter list.
zip(a, b) ==
    [i \in 1 .. (IF Len(a) < Len(b) THEN Len(a) ELSE Len(b)) |-> <<a[i], b[i]>>]

\* _build_query, the tag part: for every pair of zip(tag_key, tag_value or
\* []) the condition {"tags.<key>": {"$exists": True}} for the value "" and
\* {"tags.<key>": val} for any other; nothing without tag_key.
tag_filter(keys, values) ==
    LET pairs == zip(keys, IF values = <<"None">> THEN <<>> ELSE values)
    IN [i \in 1 .. Len(pairs) |->
          [key |-> pairs[i][1], exists |-> pairs[i][2] = "", val |-> pairs[i][2]]]

\* A document with these tags satisfies query["$and"] = tag_filter; an empty
\* tag_filter adds nothing to the query.
MatchesTagFilter(t, filter) ==
    \A i \in 1 .. Len(filter) :
        IF filter[i].exists THEN t[filter[i].key] # "absent"
        ELSE t[filter[i].key] = filter[i].val

\* A request with tag parameters and a stored task.
TagsInit ==
    /\ InitTask
    /\ ListOff
    /\ FilerOff
    /\ WritersOff
    /\ StatesOff
    /\ AccessOff
    /\ ExecLogOff
    /\ BackoffOff
    /\ CleanupOff
    /\ UploadOff
    /\ tag_key \in ListsOf(TagKeys)
    /\ tag_value \in ListsOf(TagValues) \cup {<<"None">>}
    /\ doc_tags \in [TagKeys -> {"absent", "v1", "v2"}]
    /\ returned = FALSE
    /\ tagPc = "call"

\* ListTasksController.execute: the task is listed when it satisfies the
\* query.
ListTasksByTag ==
    /\ tagPc = "call"
    /\ returned' = MatchesTagFilter(doc_tags, tag_filter(tag_key, tag_value))
    /\ tagPc' = "done"
    /\ UNCHANGED <<tag_key, tag_value, doc_tags, taskVars, listVars, filerVars, writerVars, stateVars, accessVars, execLogVars, backoffVars, cleanupVars, uploadVars>>

TagsNext == ListTasksByTag

TagsSpec == TagsInit /\ [][TagsNext]_vars

\* ================================================================ claims

\* The terminal states the claims speak of.
TerminalStates == {"COMPLETE", "EXECUTOR_ERROR", "SYSTEM_ERROR", "CANCELED"}

\* C1: terminal states are absorbing: once the persisted state is COMPLETE,
\* EXECUTOR_ERROR, SYSTEM_ERROR or CANCELED, no step of any process changes it.
C1_TerminalAbsorbing ==
    [][(state \in TerminalStates => state' = state)]_vars

\* The edges of the state machine INITIALIZING -> QUEUED -> RUNNING ->
\* {COMPLETE, EXECUTOR_ERROR, SYSTEM_ERROR, CANCELED}, with CANCELING entered
\* from a non-terminal state and left for CANCELED.
ValidTransitions ==
    {<<"ABSENT", "INITIALIZING">>, <<"INITIALIZING", "QUEUED">>, <<"QUEUED", "RUNNING">>}
    \cup {<<"RUNNING", t>> : t \in TerminalStates}
    \cup {<<n, "CANCELING">> : n \in {"INITIALIZING", "QUEUED", "RUNNING"}}
    \cup {<<"CANCELING", "CANCELED">>}

\* C2: the sequence of persisted state values is a prefix of a valid path of
\* the state machine: every change of the state follows one of its edges.
C2_ValidPath ==
    [][(state' # state => <<state, state'>> \in ValidTransitions)]_vars

\* C3: every inserted task document eventually reaches a terminal state,
\* under fair scheduling of the API handler, Torc and the stage processes.
C3_EventuallyTerminal ==
    (state # "ABSENT") ~> (state \in TerminalStates)

\* C4: when the last attempt of Torc fails, the state is SYSTEM_ERROR at the
\* moment Torc re-raises and exits, whichever step raised.
C4_LastAttemptSystemError ==
    [][((torcPc # "raised" /\ torcPc' = "raised" /\ attempt = max_retries - 1)
          => state' = "SYSTEM_ERROR")]_vars

\* The Job of stage s is created in this step.
JobCreated(s) ==
    /\ StageProc(s).pc \in {"none", "done"}
    /\ StageProc(s)'.pc \in {"run", "create"}

\* C5: within one attempt the stages are ordered: the PVC exists before any
\* stage Job is created, the Texam Job is created only after Torc has
\* consumed a SUCCESS message of this attempt's Tif (when there are inputs),
\* and the Tof Job only after Torc has consumed the SUCCESS message of this
\* attempt's Texam.
C5_StageOrder ==
    [][((JobCreated("tif") \/ JobCreated("texam") \/ JobCreated("tof")) => pvc)
       /\ ((JobCreated("texam") /\ task.inputs) => message = Msg("tif", attempt, "SUCCESS"))
       /\ (JobCreated("tof") => message = Msg("texam", attempt, "SUCCESS"))]_vars

\* C5, its case: with inputs and outputs, the Tof Job of the attempt has been
\* created after its Tif and its Texam have run and succeeded.
C5_Witness ==
    /\ task.inputs /\ task.outputs /\ pvc
    /\ torcStage = "tof" /\ tof.pc = "run" /\ tof.attempt = attempt
    /\ tif.pc = "done" /\ tif.attempt = attempt /\ ~tif.failed
    /\ texam.pc = "done" /\ texam.attempt = attempt /\ ~texam.failed

\* C6: executors run strictly sequentially: the Job of executor i+1 of a
\* Texam run exists only when the Job of executor i has reached the
\* condition Complete.
C6_Sequential ==
    \A i \in ExecIdx :
        (i + 1 \in ExecIdx
         /\ execJob[i + 1] \in {"running", "waiting", "complete", "failed"})
            => execJob[i] = "complete"

\* C6, its case: the second executor runs after the first has completed.
C6_Witness ==
    /\ task.executors >= 2
    /\ execJob[0] = "complete"
    /\ execJob[1] = "running"

\* C7: Torc writes COMPLETE only in an attempt in which no stage has failed.
C7_CompleteOnlyOnSuccess ==
    [][((state # "COMPLETE" /\ state' = "COMPLETE") => ~stageFailed)]_vars

\* C8: each run of a stage process publishes exactly one message: SUCCESS
\* when its work succeeded, ERROR when it failed.
C8_OneTerminalMessage ==
    \A s \in {"tif", "texam", "tof"} :
        LET p == StageProc(s)
        IN /\ Len(p.pubs) <= 1
           /\ p.pc = "done" => Len(p.pubs) = 1
           /\ p.pubs # <<>> => p.pubs[1] = IF p.failed THEN "ERROR" ELSE "SUCCESS"

\* C9: once a Cancel request has been accepted, no step of a running Torc
\* overwrites CANCELING or CANCELED.
C9_TorcKeepsCancel ==
    [][((TorcAlive /\ torcPc' # torcPc /\ state \in {"CANCELING", "CANCELED"})
          => state' = state)]_vars

\* C10: a Cancel request is rejected with NotFound when the task does not
\* exist or belongs to another user, and with BadRequest when the state of
\* the caller's task is COMPLETE, CANCELED or CANCELING; a rejected request
\* leaves the state unchanged and launches no cleanup.
C10_CancelRejected ==
    [][(cancelCount' # cancelCount =>
         (((state = "ABSENT" \/ user_id # cancelUser') => cancelResp' = "NotFound")
          /\ ((state \in {"COMPLETE", "CANCELED", "CANCELING"} /\ user_id = cancelUser')
                 => cancelResp' = "BadRequest")
          /\ (cancelResp' # "OK" => (state' = state /\ cancelPc' = cancelPc))))]_vars

\* C11: an accepted Cancel has persisted CANCELING when the response is
\* returned, and CANCELED is written only after the cleanup has processed
\* the three resource classes in the order Jobs, Pods, PVCs.
C11_CancelOrder ==
    [][(((cancelCount' # cancelCount /\ cancelResp' = "OK") => state' = "CANCELING")
        /\ ((state # "CANCELED" /\ state' = "CANCELED")
              => cleaned' = <<"jobs", "pods", "pvcs">>))]_vars

\* C11, its case: the cleanup has run through and CANCELED is stored.
C11_Witness ==
    /\ cancelResp = "OK" /\ cancelPc = "idle"
    /\ state = "CANCELED" /\ cleaned = <<"jobs", "pods", "pvcs">>

\* C12: when create_pvc fails in an attempt that is not the last one, the
\* very first attempt included, Torc closes the attempt and starts the next
\* one.
C12_PvcFailureRetried ==
    [][((torcPc = "except" /\ torcStage = "create_pvc" /\ attempt < max_retries - 1
         /\ torcPc' \notin {"except", "killed"})
        => (torcPc' = "try" /\ attempt' = attempt + 1))]_vars

\* The ExecutorLogs of the TaskLog the running attempt writes to.
CurrentExecutorLogs == logs[Len(logs)].logs

\* Texam has left its loop over the executors and Torc still waits for the
\* message of this Texam, so the last TaskLog is the one of the attempt.
ChainEnded ==
    /\ texam.pc = "message" /\ texam.attempt = attempt
    /\ torcPc = "wait" /\ torcStage = "texam" /\ HasTaskLog(logs)

\* C13: when the executor chain of Texam has ended, the current TaskLog
\* holds one ExecutorLog per executor of the task, and each of them has been
\* written by the update_executor_log call for its own position.
C13_OneLogPerExecutor ==
    ChainEnded =>
        /\ Len(CurrentExecutorLogs) = task.executors
        /\ \A i \in 1 .. Len(CurrentExecutorLogs) : CurrentExecutorLogs[i].end_time

C15_FailedChainLogs ==
    (ChainEnded /\ texam.failed) =>
        LET k == texam.idx
        IN /\ Len(CurrentExecutorLogs) = task.executors
           /\ \A i \in 0 .. (Len(CurrentExecutorLogs) - 1) :
                 /\ i < k => CurrentExecutorLogs[i + 1].exit_code = 0
                 /\ i = k => CurrentExecutorLogs[i + 1].exit_code = 1
                 /\ i > k => CurrentExecutorLogs[i + 1].stderr = Stderr("not_started", i, k)

\* Nothing of the task runs any more: Torc has exited, no stage process is
\* alive and no cleanup is pending.
AtRest ==
    /\ ~TorcAlive /\ torcPc # "none" /\ cancelPc = "idle"
    /\ \A s \in {"tif", "texam", "tof"} : StageProc(s).pc \in {"none", "done"}

\* C16: in a terminal state the last TaskLog has its end_time set, and so
\* has every ExecutorLog in it.
C16_TerminalLogsClosed ==
    (state \in TerminalStates /\ AtRest /\ HasTaskLog(logs)) =>
        /\ logs[Len(logs)].end_time
        /\ \A i \in 1 .. Len(CurrentExecutorLogs) : CurrentExecutorLogs[i].end_time

\* C17: an attempt of Torc sets RUNNING and appends its TaskLog before it
\* calls create_pvc: when the start of an attempt has got as far as
\* create_pvc (the call raised, or the attempt went on to the stages), the
\* document has one TaskLog more than before.
C17_TaskLogBeforePvc ==
    [][((torcPc = "try"
         /\ (torcPc' = "stage" \/ (torcPc' = "except" /\ torcStage' = "create_pvc")))
        => Len(logs') = Len(logs) + 1)]_vars

\* C18: the TaskLogs of earlier attempts are not written again: whatever
\* Torc writes into a TaskLog during attempt n, the failure handler of an
\* attempt that appended no TaskLog included, goes into the TaskLog that
\* attempt n appended.
C18_EarlierLogsImmutable ==
    HasTaskLog(logs) =>
        logs[Len(logs)].writer \in {-1, logs[Len(logs)].attempt}

\* C19: Torc removes the PVC on every path: when execute has ended, after
\* COMPLETE or by re-raising, the PVC does not exist, and no attempt begins
\* while the PVC of the attempt before still exists.
C19_PvcCleanedUp ==
    torcPc \in {"done", "raised", "try"} => ~pvc

\* C20: following next_page_token from the first page to the page without a
\* token yields every matching task exactly once, in insertion order, for
\* every page size n >= 1 and every filter.
C20_PagesCoverQuery ==
    listPc = "done" => collected = SortedSeq(matching)

\* Torc reads the message of the Texam of its attempt, and the executor the
\* chain stopped at is one whose Job ended with the condition Failed.
ExecutorFailureRead ==
    /\ torcPc = "wait" /\ torcStage = "texam" /\ torcPc' \notin {"wait", "killed"}
    /\ inbox # <<>> /\ Head(inbox).stage = "texam" /\ Head(inbox).attempt = attempt
    /\ Head(inbox).status = "ERROR"
    /\ HasTaskLog(logs) /\ Len(CurrentExecutorLogs) > texam.idx
    /\ CurrentExecutorLogs[texam.idx + 1].exit_code = 1
    /\ CurrentExecutorLogs[texam.idx + 1].stderr.kind = "job_logs"

\* C21: when an executor Job has ended Failed, the state Torc gives the
\* task is EXECUTOR_ERROR or another state that is not SYSTEM_ERROR.
C21_ExecutorErrorState ==
    [][(ExecutorFailureRead => state' # "SYSTEM_ERROR")]_vars

\* The watch on an executor Job whose pod stays Pending with a critical
\* waiting reason has ended and Texam has recorded the executor.
WaitingPodRecorded ==
    /\ texam.pc = "monitor" /\ execJob[texam.idx] = "waiting"
    /\ texam'.pc = "message"
    /\ HasTaskLog(logs') /\ Len(logs'[Len(logs')].logs) > texam.idx

\* C22: an executor whose pod stays Pending with a critical waiting reason
\* is recorded as FAILED without the watch having to time out.
C22_WaitingPodFailsEarly ==
    [][(WaitingPodRecorded
        => /\ logs'[Len(logs')].logs[texam.idx + 1].exit_code = 1
           /\ logs'[Len(logs')].logs[texam.idx + 1].stderr.kind # "timed_out")]_vars

\* monitor_executor_job returns in this step and the ExecutorLog it has
\* written for its executor carries the text of the watch ending without a
\* condition.
WatchTimedOut ==
    /\ texam.pc = "monitor" /\ texam'.pc \in {"create", "message"}
    /\ logs' # logs /\ HasTaskLog(logs')
    /\ Len(logs'[Len(logs')].logs) > texam.idx
    /\ logs'[Len(logs')].logs[texam.idx + 1].stderr.kind = "timed_out"

TimedOut(k) ==
    /\ k + 1 <= Len(CurrentExecutorLogs)
    /\ CurrentExecutorLogs[k + 1].stderr.kind = "timed_out"

StrategyByScheme(u) ==
    IF u = <<>> \/ u = <<"">> \/ urlparse_scheme(u) = ""
    THEN "ContentFilerStrategy"
    ELSE CASE lower(urlparse_scheme(u)) = "file" -> "LocalFilerStrategy"
           [] lower(urlparse_scheme(u)) = "s3" -> "S3FilerStrategy"
           [] lower(urlparse_scheme(u)) \in {"http", "https"} -> "HttpFilerStrategy"
           [] OTHER -> "ValueError"

\* C24: the filer strategy of every input or output url is the one of its
\* URI scheme: Content for an absent url or an empty scheme, Local for
\* file, S3 for s3, Http for http and https, and an error for any other.
C24_StrategyByScheme ==
    strategy \notin {"off", "none"} => strategy = StrategyByScheme(uri)

\* C25: the log writes are atomic: when two log operations on the same
\* document have both finished, data.logs is what the two operations give
\* when one runs after the other, in one of the two orders.
C25_LogWritesAtomic ==
    (opPc # <<>> /\ \A w \in 1 .. 2 : opPc[w] = "done") =>
        stored \in {Modified(op[2], Modified(op[1], stored0)),
                    Modified(op[1], Modified(op[2], stored0))}

\* C26: update_task_state does not change the state when the new state is
\* the current one, sets updated_at in every call, that one included, and
\* leaves every other field as it is.
C26_UpdateTaskStateFrame ==
    [][(clock' = clock + 1 =>
            /\ document'.state = requested'
            /\ document'.data_state = requested'
            /\ document'.updated_at = clock'
            /\ document'.user_id = document.user_id)]_vars

\* C27: GetTask on a task of another user is answered NotFound, the answer
\* for an absent task, and ListTasks returns only tasks whose user_id is
\* the caller's, whoever the caller is.
C27_OwnTasksOnly ==
    /\ (answer.op = "get" /\ owner[answer.id] # answer.caller) => answer.kind = "NotFound"
    /\ answer.op = "list" => \A t \in answer.tasks : owner[t] = answer.caller

\* C28: a task without inputs never gets a Tif Job, Torc going from the PVC
\* straight to Texam, and a task without outputs never gets a Tof Job, Torc
\* going from the success of Texam straight to the completion.
C28_EmptyStagesSkipped ==
    [][(/\ ~task.inputs => tif'.pc = "none"
        /\ ~task.outputs => tof'.pc = "none"
        /\ (torcPc = "stage" /\ torcStage = "tif" /\ ~task.inputs /\ torcStage' # "tif"
            /\ torcPc' # "killed")
              => (torcPc' = "stage" /\ torcStage' = "texam")
        /\ (torcPc = "stage" /\ torcStage = "tof" /\ ~task.outputs /\ torcStage' # "tof"
            /\ torcPc' # "killed")
              => torcPc' = "finish")]_vars

C28_Witness ==
    /\ state = "COMPLETE"
    /\ ~task.inputs
    /\ ~task.outputs
    /\ texam.pc = "done"
    /\ tif.pc = "none"
    /\ tof.pc = "none"

\* The Jobs pass of the cleanup has deleted the Jobs of the task, the Torc
\* Job among them.
JobsDeleted ==
    /\ cancelPc = "jobs"
    /\ cancelPc' # "jobs"
    /\ TorcJobExists
    /\ <<torcPc, torcStage, message, subscribed, inbox, stageFailed, texam, execJob>>'
         # <<torcPc, torcStage, message, subscribed, inbox, stageFailed, texam, execJob>>

\* A stage Job is created.
StageJobCreated ==
    \/ tif.pc # "run" /\ tif'.pc = "run"
    \/ texam.pc # "create" /\ texam'.pc = "create"
    \/ tof.pc # "run" /\ tof'.pc = "run"

C30_MessageOfAwaitedStage ==
    [][((torcPc = "wait" /\ message' # message /\ message' # NoMessage)
          => (message'.stage = torcStage /\ message'.attempt = attempt))]_vars

\* Stage process p has published a message on the step to q.
Published(p, q) == Len(q.pubs) > Len(p.pubs)

\* Stage s of the attempt Torc is in publishes its first message after Torc
\* has created its Job and before Torc has taken a message.
AwaitedStagePublishes(s, p, q) ==
    /\ torcPc \in {"subscribe", "wait"}
    /\ torcStage = s
    /\ p.attempt = attempt
    /\ p.pubs = <<>>
    /\ Published(p, q)

\* C31: the message that a stage publishes is delivered to the subscription
\* of the Torc that waits for the stage, in every interleaving, also when
\* the stage publishes before Torc has subscribed.
C31_NoMessageLost ==
    [][(\A s \in {"tif", "texam", "tof"} :
          AwaitedStagePublishes(s, StageProc(s), StageProc(s)')
             => (inbox' # <<>> /\ Head(inbox').stage = s
                 /\ Head(inbox').attempt = attempt))]_vars

\* C32: when the create-task handler fails to launch Torc (the ConfigMap of
\* the task, the Torc Job or the owner reference fails), the state of the
\* inserted task becomes SYSTEM_ERROR and does not stay INITIALIZING.
C32_LaunchFailureRecorded ==
    [][((apiPc = "scheduled" /\ apiPc' # "scheduled" /\ torcPc' # "try")
          => state' = "SYSTEM_ERROR")]_vars

\* Torc issues create_job for the stage it is at.
StageJobRequested ==
    /\ torcPc = "stage"
    /\ ~StageSkipped(torcStage)
    /\ torcPc' \in {"subscribe", "except"}

\* C33: when Torc issues create_job for a stage, no Job of that name is left
\* from an earlier attempt, whatever the TTL has removed meanwhile.
C33_StageNameFree ==
    [][(StageJobRequested => NameFree(torcStage, TRUE))]_vars

\* The name has the form te-<uuid>-<int>.
MatchesExecutorName(n) ==
    /\ Len(n) = 7
    /\ n[1] = "te"
    /\ SubSeq(n, 2, 6) \in {TaskUuid, OtherUuid}
    /\ IsInt(n[7])

\* The name is the one of an executor of the stored task that has an
\* ExecutorLog in the last TaskLog.
NamesExistingLog(n, ls) ==
    /\ MatchesExecutorName(n)
    /\ SubSeq(n, 2, 6) = TaskUuid
    /\ HasTaskLog(ls)
    /\ int(n[7]) + 1 <= Len(ls[Len(ls)].logs)

\* C34: update_executor_log with the name te-<taskId>-<idx> changes only
\* logs[-1].logs[idx] of that task, giving it an end_time and exit_code 0
\* for SUCCEEDED and 1 otherwise; with a name of another form, or an idx
\* without an ExecutorLog, the document is left as it was.
C34_ExecutorLogByName ==
    execLogPc = "done" =>
        IF NamesExistingLog(name_arg, before)
        THEN /\ Len(after) = Len(before)
             /\ \A i \in 1 .. (Len(before) - 1) : after[i] = before[i]
             /\ LET old == before[Len(before)]
                    new == after[Len(after)]
                    at == int(name_arg[7]) + 1
                IN /\ [new EXCEPT !.logs = old.logs] = old
                   /\ Len(new.logs) = Len(old.logs)
                   /\ \A j \in 1 .. Len(old.logs) : j # at => new.logs[j] = old.logs[j]
                   /\ new.logs[at].end_time
                   /\ new.logs[at].exit_code = IF phase_arg = "Succeeded" THEN 0 ELSE 1
        ELSE after = before

\* C35: for every BACKOFF_LIMIT >= 1 the create retry of an executor calls
\* create_job at least once before it gives up, its delays start at 1,
\* double and stay within BACKOFF_LIMIT, the Job is delete_calls after every
\* failed call, the number of calls is bounded, and giving up leaves the
\* executor recorded FAILED with the stderr of the failed creation.
C35_CreateRetry ==
    /\ create_calls <= BACKOFF_LIMIT
    /\ \A i \in 1 .. Len(slept) :
          /\ slept[i] <= BACKOFF_LIMIT
          /\ slept[i] = IF i = 1 THEN 1 ELSE 2 * slept[i - 1]
    /\ createPc = "loop" => delete_calls = create_calls
    /\ createPc = "returned_false" =>
          /\ create_calls >= 1
          /\ delete_calls = create_calls
          /\ exec_idx + 1 <= Len(execLogs[Len(execLogs)].logs)
          /\ execLogs[Len(execLogs)].logs[exec_idx + 1].exit_code = 1
          /\ execLogs[Len(execLogs)].logs[exec_idx + 1].stderr.kind = "create_failed"

C37_CleanupRetries ==
    /\ delete_calls_made <= 3
    /\ \A a \in 0 .. (Len(sleeps) - 1) : sleeps[a + 1] = 2 ^ (a + 1)

\* The directory that holds the part of the path before its first character
\* of "*?[]{}", "/" when that part has no separator.
BeforeFirstGlobChar(p) ==
    LET at == {i \in 1 .. Len(p) : p[i] \in {"*", "?", "[", "]", "{", "}"}}
        first == CHOOSE i \in at : \A j \in at : i <= j
        slash == rfind_slash(p, first - 1)
    IN IF slash = 0 THEN <<"/">> ELSE SubSeq(p, 1, slash)

\* C38: upload takes the glob path exactly when the path has one of *?[]{}
\* or a path_prefix is set; there it calls upload_glob when something
\* matches and else uploads the directory at path_prefix, inferred from the
\* part of the path before its first glob character when the prefix is
\* absent; otherwise it uploads a file for an output of type FILE with a
\* file at the staged path, and a directory in every other case.
C38_UploadDispatch ==
    uploadPc = "done" =>
        IF path_contains_glob(out_path) \/ path_prefix # <<>>
        THEN IF glob_matches
             THEN uploaded.handler = "upload_glob"
             ELSE /\ uploaded.handler = "upload_output_directory"
                  /\ rstrip_slash(uploaded.on)
                       = rstrip_slash(get_container_path(
                            IF path_prefix # <<>> THEN path_prefix
                            ELSE BeforeFirstGlobChar(out_path)))
        ELSE /\ uploaded.on = get_container_path(out_path)
             /\ uploaded.handler = IF out_type = "FILE" /\ is_file
                                   THEN "upload_output_file"
                                   ELSE "upload_output_directory"

\* C39: a task returned by ListTasks has, for every index i of tag_key, the
\* tag tag_key[i], with the value tag_value[i] when that is not empty and
\* with any value when it is empty or absent; no key is left out.
C39_TagFilterParallel ==
    (tagPc = "done" /\ returned) =>
        \A i \in 1 .. Len(tag_key) :
            /\ doc_tags[tag_key[i]] # "absent"
            /\ (tag_value # <<"None">> /\ i <= Len(tag_value) /\ tag_value[i] # "")
                  => doc_tags[tag_key[i]] = tag_value[i]

\* C40: in every state of a task document the top-level state and
\* data.state are equal: the insertion sets both to INITIALIZING, every
\* state update writes both at once and no log operation changes either.
C40_StateFieldsEqual ==
    /\ document.state = document.data_state
    /\ (document # NoDocument /\ clock = 0) => document.state = "INITIALIZING"

C40_Witness ==
    /\ document.state = "COMPLETE"
    /\ document.data_state = "COMPLETE"
    /\ document.data_logs > 0
    /\ clock >= 2

====
